---- MODULE Spec2Model ----
(***************************************************************************)
(* A model of the FROST-Ed25519 round machinery:                           *)
(*   - rounds.BaseRound (src/pkg/rounds/base.go): the round life cycle,    *)
(*     abort / finish signalling and the message queue wrapper, called by  *)
(*     several goroutines;                                                 *)
(*   - signing round 1, in its two variants (src/unnamed/part_000 and      *)
(*     src/pkg/frost/sign/round1.go);                                      *)
(*   - key generation round 2 (src/pkg/frost/keygen/round2.go).            *)
(* Each part has its own specification over the same variables; the        *)
(* variables of the other parts stay at their initial values.              *)
(***************************************************************************)
EXTENDS Integers, Sequences, FiniteSets, TLC

VARIABLES
    \* ---- rounds.BaseRound (src/pkg/rounds/base.go:26-44)
    state,              \* b.state, a uint8
    isProcessingStep,   \* b.isProcessingStep
    finalError,         \* b.finalError: <<>> is nil, else the chained abort entries
    roundNumber,        \* b.roundNumber
    done,               \* b.done: "open" or "closed"
    messages,           \* b.messages, the messages.Queue
    \* ---- the goroutines calling into the BaseRound
    pc,                 \* where each caller is inside an entry point
    sv,                 \* NextStep's private copy of b.state (register / reload)
    ret,                \* what the last completed call returned
    panicked,           \* a call panicked (close of a closed channel): the process is gone
    \* ---- history of the BaseRound calls
    abortLog,           \* the (culprit, err) arguments of the Abort calls, in call order
    everTerminal,       \* b.state has been Finished or Abort at some point
    granted,            \* the step the last CanX grant of the current round reserved
    \* ---- signing round 1: the fields of sign's base that round1 uses
    variant,            \* "queue": src/unnamed/part_000; "combined": sign/round1.go
    Parties,            \* round.Parties: id -> [Di, Ei, Pi, Ri, Zi, Lagrange]
    R,                  \* round.R
    C,                  \* round.C
    nonce_d,            \* round.d
    nonce_e,            \* round.e
    signSecret,         \* round.Secret
    Message,            \* round.Message
    mailbox,            \* the stored Sign1 messages: round.messages / round.msgs1
    messagesProcessed,  \* round.messagesProcessed (part_000)
    roundProcessed,     \* round.roundProcessed (part_000)
    readyForNextRound,  \* round.readyForNextRound (round1.go)
    current,            \* the round object the session holds: "round1" or "round2"
    signRet,            \* what the last call on the round-1 object returned
    signPanicked,       \* a call dereferenced a missing message: the process is gone
    \* ---- history of the signing session
    computed,           \* how many times ProcessRound has computed the response
    shuffled,           \* the last ProcessRound ranged over Parties out of slice order
    sign1Seen,          \* the peers whose Sign1 message has been stored
    \* ---- key generation round 2 (src/pkg/frost/keygen/round2.go)
    Secret,             \* round.Secret, the accumulated secret share
    Commitments,        \* round.Commitments: id -> exponent polynomial
    CommitmentsSum,     \* round.CommitmentsSum
    inbox,              \* the KeyGen2 messages received: sender -> msg.KeyGen2.Share
    Output,             \* round.Output: <<>> until GenerateMessages fills it
    kgRet,              \* what the last call on the round-2 object returned
    \* ---- history of the key generation round
    accepted,           \* how many shares of each sender ProcessMessage has accepted
    \* ---- NewBaseRound (src/pkg/rounds/base.go:46-89)
    built               \* the last NewBaseRound call: its arguments and what it returned

baseVars == <<state, isProcessingStep, finalError, roundNumber, done, messages,
              pc, sv, ret, panicked, abortLog, everTerminal, granted>>

signVars == <<variant, Parties, R, C, nonce_d, nonce_e, signSecret, Message, mailbox,
              messagesProcessed, roundProcessed, readyForNextRound, current, signRet,
              signPanicked, computed, shuffled, sign1Seen>>

kgVars == <<Secret, Commitments, CommitmentsSum, inbox, Output, kgRet, accepted>>

ctorVars == <<built>>

vars == <<baseVars, signVars, kgVars, ctorVars>>

\* what a step of one part leaves alone
nonBaseVars == <<signVars, kgVars, ctorVars>>
nonSignVars == <<baseVars, kgVars, ctorVars>>
nonKgVars == <<baseVars, signVars, ctorVars>>
nonCtorVars == <<baseVars, signVars, kgVars>>

-----------------------------------------------------------------------------
\* Bounds of the model

\* Abort calls made on one BaseRound
MaxAborts == 2
\* rounds entered through PrepareNextRound
MaxRounds == 1
\* times one signing session computes its response
MaxComputed == 2
\* shares of one sender that key generation round 2 accepts
MaxAccepted == 2
\* the largest party ID handed to NewBaseRound
MaxID == 3
\* the longest allPartyIDs list handed to NewBaseRound
MaxListLen == 3

\* The goroutines calling into one BaseRound. Every race of the code is between one
\* call that takes no lock and one other call, so two callers show them all.
Callers == {1, 2}

-----------------------------------------------------------------------------
\* RoundState (base.go:13-21): 1 << iota

ProcessMessages == 1
ProcessRound == 2
GenerateMessages == 4
NextRound == 8
Finished == 16
Abort == 32

\* the instance under test: NewBaseRound(1, [1, 2], <<type 1>>)
selfPartyID == 1
OtherPartyIDs == {2}
\* acceptedTypes: one message type per round, in round order
AcceptedTypes == <<1>>

Culprits == {selfPartyID} \cup OtherPartyIDs
Errs == {"VSS failed to validate"}
\* the messages handed to StoreMessage: from the peer or from a stranger (3), of the
\* accepted type or of another one
Msgs == [From : OtherPartyIDs \cup {3}, Type : {1, 2}]

\* an error value: the chain of (culprit, err) entries its text is made of; <<>> is nil
ErrNil == <<>>
ErrEntry(culprit, err) == [culprit |-> culprit, err |-> err]

-----------------------------------------------------------------------------
\* messages.Queue, as section 4.D of the specification describes it

QueueErr(kind) == <<ErrEntry(0, kind)>>

QueueCurrentType(q) ==
    IF q.round <= Len(AcceptedTypes) THEN AcceptedTypes[q.round] ELSE 0

\* store(msg): UnknownSender, WrongType (a past round's type), Duplicate, or stored
QueueStoreErr(q, m) ==
    IF m.From \notin OtherPartyIDs THEN QueueErr("UnknownSender")
    ELSE IF ~(\E k \in q.round..Len(AcceptedTypes) : AcceptedTypes[k] = m.Type)
         THEN QueueErr("WrongType")
    ELSE IF <<m.Type, m.From>> \in q.stored THEN QueueErr("Duplicate")
    ELSE ErrNil

QueueStore(q, m) ==
    IF QueueStoreErr(q, m) = ErrNil
    THEN [q EXCEPT !.stored = @ \cup {<<m.Type, m.From>>}]
    ELSE q

\* receivedAll(): a message of the current round's type is present for every peer
QueueReceivedAll(q) ==
    /\ QueueCurrentType(q) # 0
    /\ \A id \in OtherPartyIDs : <<QueueCurrentType(q), id>> \in q.stored

\* nextRound(): discards the current round's entries
QueueNextRound(q) ==
    [round  |-> q.round + 1,
     stored |-> {x \in q.stored : x[1] # QueueCurrentType(q)}]

-----------------------------------------------------------------------------
\* Helpers of the BaseRound actions

Running == ~panicked

Returns(t, op, ok, err) ==
    ret' = [op |-> op, ok |-> ok, err |-> err]

Terminal(s) == s \in {Finished, Abort}

\* a call that ends in a panic returns nothing to its caller
Panics(t) == ret' = [op |-> "panic", ok |-> FALSE, err |-> ErrNil]

\* close(b.done): closing a closed channel panics
CloseDone ==
    IF done = "closed"
    THEN /\ panicked' = TRUE
         /\ done' = done
    ELSE /\ done' = "closed"
         /\ panicked' = panicked

\* b.state <<= 1 on a uint8
ShiftState(s) == (s * 2) % 256

-----------------------------------------------------------------------------
\* PrepareNextRound (base.go:93-102), under b.mtx

\* the state that allows the next round (base.go:96)
CanPrepareFromNextRoundOn(s) == s >= NextRound

CanPrepare(s) == s = NextRound

PrepareNextRound(t) ==
    /\ Running /\ pc[t] = "idle"
    /\ CanPrepare(state) => roundNumber < MaxRounds
    /\ IF CanPrepare(state)
       THEN /\ state' = ProcessMessages
            /\ roundNumber' = roundNumber + 1
            /\ granted' = {}
            /\ Returns(t, "PrepareNextRound", TRUE, ErrNil)
       ELSE /\ UNCHANGED <<state, roundNumber, granted>>
            /\ Returns(t, "PrepareNextRound", FALSE, ErrNil)
    /\ UNCHANGED <<isProcessingStep, finalError, done, messages, pc, sv, panicked,
                   abortLog, everTerminal>>
    /\ UNCHANGED nonBaseVars

\* the error Abort records (base.go:109-114): the first one, or the chain extended
AbortErrorOverwrite(old, culprit, err) == <<ErrEntry(culprit, err)>>

AbortError(old, culprit, err) ==
    IF old = ErrNil
    THEN <<ErrEntry(culprit, err)>>
    ELSE Append(old, ErrEntry(culprit, err))

\* Abort (base.go:105-115), under b.mtx
AbortCall(t, culprit, err) ==
    /\ Running /\ pc[t] = "idle"
    /\ Len(abortLog) < MaxAborts
    /\ state' = Abort
    /\ finalError' = AbortError(finalError, culprit, err)
    /\ IF finalError = ErrNil
       THEN CloseDone
       ELSE UNCHANGED <<done, panicked>>
    /\ abortLog' = Append(abortLog, ErrEntry(culprit, err))
    /\ everTerminal' = TRUE
    /\ IF finalError = ErrNil /\ done = "closed"
       THEN Panics(t)
       ELSE Returns(t, "Abort", TRUE, ErrNil)
    /\ UNCHANGED <<isProcessingStep, roundNumber, messages, pc, sv>>
    /\ UNCHANGED granted
    /\ UNCHANGED nonBaseVars

\* the states in which Finish returns at once (base.go:120)
FinishSkipsFinishedOnly(s) == s = Finished

FinishSkips(s) == s = Abort \/ s = Finished

\* Finish (base.go:119-125) takes no lock: its read of b.state, its write of b.state
\* and close(b.done) are separate steps
FinishCheck(t) ==
    /\ Running /\ pc[t] = "idle"
    /\ IF FinishSkips(state)
       THEN /\ Returns(t, "Finish", TRUE, ErrNil)
            /\ pc' = pc
       ELSE /\ pc' = [pc EXCEPT ![t] = "Finish_set"]
            /\ ret' = ret
    /\ UNCHANGED <<state, isProcessingStep, finalError, roundNumber, done, messages,
                   sv, panicked, abortLog, everTerminal>>
    /\ UNCHANGED granted
    /\ UNCHANGED nonBaseVars

FinishSet(t) ==
    /\ Running /\ pc[t] = "Finish_set"
    /\ state' = Finished
    /\ everTerminal' = TRUE
    /\ pc' = [pc EXCEPT ![t] = "Finish_close"]
    /\ UNCHANGED <<isProcessingStep, finalError, roundNumber, done, messages,
                   sv, ret, panicked, abortLog>>
    /\ UNCHANGED granted
    /\ UNCHANGED nonBaseVars

FinishClose(t) ==
    /\ Running /\ pc[t] = "Finish_close"
    /\ CloseDone
    /\ pc' = [pc EXCEPT ![t] = "idle"]
    /\ IF done = "closed"
       THEN Panics(t)
       ELSE Returns(t, "Finish", TRUE, ErrNil)
    /\ UNCHANGED <<state, isProcessingStep, finalError, roundNumber, messages,
                   sv, abortLog, everTerminal>>
    /\ UNCHANGED granted
    /\ UNCHANGED nonBaseVars

\* WaitForFinish (base.go:129-132) takes no lock: it blocks on <-b.done, then reads
\* b.finalError
WaitForFinishCall(t) ==
    /\ Running /\ pc[t] = "idle"
    /\ pc' = [pc EXCEPT ![t] = "Wait_recv"]
    /\ UNCHANGED <<state, isProcessingStep, finalError, roundNumber, done, messages,
                   sv, ret, panicked, abortLog, everTerminal>>
    /\ UNCHANGED granted
    /\ UNCHANGED nonBaseVars

WaitForFinishRecv(t) ==
    /\ Running /\ pc[t] = "Wait_recv"
    /\ done = "closed"
    /\ pc' = [pc EXCEPT ![t] = "Wait_ret"]
    /\ UNCHANGED <<state, isProcessingStep, finalError, roundNumber, done, messages,
                   sv, ret, panicked, abortLog, everTerminal>>
    /\ UNCHANGED granted
    /\ UNCHANGED nonBaseVars

WaitForFinishReturn(t) ==
    /\ Running /\ pc[t] = "Wait_ret"
    /\ pc' = [pc EXCEPT ![t] = "idle"]
    /\ Returns(t, "WaitForFinish", finalError = ErrNil, finalError)
    /\ UNCHANGED <<state, isProcessingStep, finalError, roundNumber, done, messages,
                   sv, panicked, abortLog, everTerminal>>
    /\ UNCHANGED granted
    /\ UNCHANGED nonBaseVars

\* CanProcessMessages / CanProcessRound / CanGenerateMessages (base.go:141-187),
\* under b.mtx; `ready` is the extra condition of CanProcessMessages
CanStep(t, op, want, ready) ==
    /\ Running /\ pc[t] = "idle"
    /\ IF ~isProcessingStep /\ state = want /\ ready
       THEN /\ isProcessingStep' = TRUE
            /\ granted' = {want}
            /\ Returns(t, op, TRUE, ErrNil)
       ELSE /\ isProcessingStep' = isProcessingStep
            /\ granted' = granted
            /\ Returns(t, op, FALSE, ErrNil)
    /\ UNCHANGED <<state, finalError, roundNumber, done, messages, pc, sv, panicked,
                   abortLog, everTerminal>>
    /\ UNCHANGED nonBaseVars

CanProcessMessages(t) ==
    CanStep(t, "CanProcessMessages", ProcessMessages, QueueReceivedAll(messages))

CanProcessRound(t) == CanStep(t, "CanProcessRound", ProcessRound, TRUE)

CanGenerateMessages(t) == CanStep(t, "CanGenerateMessages", GenerateMessages, TRUE)

\* the states in which NextStep does something (base.go:191-199)
NextStepActs(s) == s \in {ProcessMessages, ProcessRound, GenerateMessages}

\* NextStep (base.go:190-200) takes no lock. The switch reads b.state; the case
\* clears isProcessingStep; b.state <<= 1 shifts either the value the switch read
\* (kept in a register) or a value read again, and writes it back; the
\* ProcessMessages case then advances the queue.
NextStepSwitch(t) ==
    /\ Running /\ pc[t] = "idle"
    /\ IF NextStepActs(state)
       THEN /\ pc' = [pc EXCEPT ![t] =
                        IF state = ProcessMessages THEN "NextStep_clearPM"
                                                   ELSE "NextStep_clear"]
            /\ sv' = [sv EXCEPT ![t] = state]
            /\ ret' = ret
       ELSE /\ Returns(t, "NextStep", TRUE, ErrNil)
            /\ UNCHANGED <<pc, sv>>
    /\ UNCHANGED <<state, isProcessingStep, finalError, roundNumber, done, messages,
                   panicked, abortLog, everTerminal>>
    /\ UNCHANGED granted
    /\ UNCHANGED nonBaseVars

NextStepClear(t) ==
    /\ Running /\ pc[t] \in {"NextStep_clearPM", "NextStep_clear"}
    /\ isProcessingStep' = FALSE
    /\ \E v \in {sv[t], state} : sv' = [sv EXCEPT ![t] = v]
    /\ pc' = [pc EXCEPT ![t] =
                 IF pc[t] = "NextStep_clearPM" THEN "NextStep_shiftPM"
                                               ELSE "NextStep_shift"]
    /\ UNCHANGED <<state, finalError, roundNumber, done, messages, ret, panicked,
                   abortLog, everTerminal>>
    /\ UNCHANGED granted
    /\ UNCHANGED nonBaseVars

NextStepShift(t) ==
    /\ Running /\ pc[t] \in {"NextStep_shiftPM", "NextStep_shift"}
    /\ state' = ShiftState(sv[t])
    /\ everTerminal' = (everTerminal \/ Terminal(ShiftState(sv[t])))
    /\ sv' = [sv EXCEPT ![t] = 0]
    /\ IF pc[t] = "NextStep_shiftPM"
       THEN /\ pc' = [pc EXCEPT ![t] = "NextStep_queue"]
            /\ ret' = ret
       ELSE /\ pc' = [pc EXCEPT ![t] = "idle"]
            /\ Returns(t, "NextStep", TRUE, ErrNil)
    /\ UNCHANGED <<isProcessingStep, finalError, roundNumber, done, messages, panicked,
                   abortLog>>
    /\ UNCHANGED granted
    /\ UNCHANGED nonBaseVars

NextStepQueue(t) ==
    /\ Running /\ pc[t] = "NextStep_queue"
    /\ messages' = QueueNextRound(messages)
    /\ pc' = [pc EXCEPT ![t] = "idle"]
    /\ Returns(t, "NextStep", TRUE, ErrNil)
    /\ UNCHANGED <<state, isProcessingStep, finalError, roundNumber, done, sv, panicked,
                   abortLog, everTerminal>>
    /\ UNCHANGED granted
    /\ UNCHANGED nonBaseVars

\* what StoreMessage returns (base.go:236-238): the queue's verdict
StoreMessageErr(q, m) == QueueStoreErr(q, m)

\* StoreMessage (base.go:236-238): hands the message to the queue
StoreMessage(t, m) ==
    /\ Running /\ pc[t] = "idle"
    /\ messages' = QueueStore(messages, m)
    /\ Returns(t, "StoreMessage", StoreMessageErr(messages, m) = ErrNil,
               StoreMessageErr(messages, m))
    /\ UNCHANGED <<state, isProcessingStep, finalError, roundNumber, done, pc, sv,
                   panicked, abortLog, everTerminal>>
    /\ UNCHANGED granted
    /\ UNCHANGED nonBaseVars


-----------------------------------------------------------------------------
\* The group and the hash of the signing and key generation rounds.
\* edwards25519 is scaled down to the subgroup of order 5 of the integers modulo 11
\* under multiplication, generated by 4: a scalar is a number modulo 5, a point is
\* one of 1, 3, 4, 5, 9, point addition is multiplication modulo 11, and [k]P is
\* P to the power k.

Scalars == 0..4
Points == {1, 3, 4, 5, 9}

\* edwards25519.NewIdentityPoint()
IdentityPoint == 1
\* edwards25519.NewScalar(): zero
ZeroScalar == 0

\* Scalar.Add, Scalar.Multiply, Scalar.MultiplyAdd (x*y + z)
ScalarAdd(x, y) == (x + y) % 5
ScalarMultiply(x, y) == (x * y) % 5
ScalarMultiplyAdd(x, y, z) == (x * y + z) % 5

\* Point.Add
PointAdd(p, q) == (p * q) % 11

\* Point.ScalarMult: [k]P
RECURSIVE ScalarMult(_, _)
ScalarMult(k, p) == IF k = 0 THEN IdentityPoint ELSE PointAdd(p, ScalarMult(k - 1, p))

\* Point.ScalarBaseMult: [k]B
ScalarBaseMult(k) == ScalarMult(k, 4)

\* Point.Bytes(): the encoding of a point
PointBytes(p) == <<p>>

\* binary.BigEndian.PutUint32(IDBuffer[:], id)
PutUint32(id) ==
    <<(id \div 16777216) % 256, (id \div 65536) % 256, (id \div 256) % 256, id % 256>>

\* sha512, scaled down to a state below 65521: sha512.New() / h.Reset(), h.Write(bytes)
\* absorbing the bytes from position k on, and h.Sum(nil)
HashNew == 5381

RECURSIVE HashWriteFrom(_, _, _)
HashWriteFrom(h, bytes, k) ==
    IF k > Len(bytes) THEN h
    ELSE HashWriteFrom((h * 131 + bytes[k] + 1) % 65521, bytes, k + 1)

HashWrite(h, bytes) == HashWriteFrom(h, bytes, 1)

\* Scalar.SetUniformBytes: the digest reduced modulo the group order
SetUniformBytes(digest) == digest % 5

\* []byte("FROST-SHA512")
DomainTag == <<70, 82, 79, 83, 84, 45, 83, 72, 65, 53, 49, 50>>

-----------------------------------------------------------------------------
\* Signing round 1 (src/unnamed/part_000 and src/pkg/frost/sign/round1.go)

\* the session under test: party 2 signing with parties 1 and 3
AllParties == <<1, 2, 3>>
PartySelf == 2
PartyIDs == {AllParties[k] : k \in 1..Len(AllParties)}
Peers == PartyIDs \ {PartySelf}
\* round.Y, the group key
GroupKey == 9

\* the messages to sign
SignMessages == {<<7>>}
\* the (D, E) pairs a peer may send in Sign1
PeerNonces == {[Di |-> 4, Ei |-> 3], [Di |-> 9, Ei |-> 1]}

\* the orders in which a range over the Parties map may visit its keys
RangeOrders ==
    {o \in [1..Len(AllParties) -> PartyIDs] : \A id \in PartyIDs : \E k \in DOMAIN o : o[k] = id}

ErrRoundProcessed == "ErrRoundProcessed"
ErrRoundNotProcessed == "ErrRoundNotProcessed"

SignLive == ~signPanicked

SignReturns(op, err, out) == signRet' = [op |-> op, err |-> err, out |-> out]

\* messages.NewSign2(from, z)
NewSign2(from, z) == [From |-> from, Zi |-> z]

\* B = (ID1 || D_1 || E_1) || ... || (ID_N || D_N || E_N), ranging over the
\* AllParties slice (part_000:52-67, round1.go:67-79)
RECURSIVE TranscriptB(_, _)
TranscriptB(ids, parties) ==
    IF ids = <<>> THEN <<>>
    ELSE PutUint32(Head(ids)) \o PointBytes(parties[Head(ids)].Di)
             \o PointBytes(parties[Head(ids)].Ei) \o TranscriptB(Tail(ids), parties)

\* the list the transcript B ranges over: the AllParties slice, not the map range
TranscriptOrderOfRange(allParties, order) == order

TranscriptOrder(allParties, order) == allParties

\* rho = H("FROST-SHA512" || ID || Message || B) (part_000:73-83, round1.go:86-102)
Rho(id, msg, B) ==
    SetUniformBytes(
        HashWrite(HashWrite(HashWrite(HashWrite(HashNew, DomainTag), PutUint32(id)), msg), B))

\* the range over round.Parties (part_000:72-91, round1.go:85-110), visiting the keys
\* in `order`: sets Pi and Ri of each party and adds Ri to R
RECURSIVE RangeParties(_, _, _, _, _)
RangeParties(order, parties, accR, msg, B) ==
    IF order = <<>> THEN [Parties |-> parties, R |-> accR]
    ELSE LET id == Head(order)
             pi == Rho(id, msg, B)
             ri == PointAdd(ScalarMult(pi, parties[id].Ei), parties[id].Di)
         IN  RangeParties(Tail(order),
                          [parties EXCEPT ![id].Pi = pi, ![id].Ri = ri],
                          PointAdd(accR, ri), msg, B)

\* eddsa.ComputeChallenge(message, Y, R): c = H(R, Y, M)
ComputeChallenge(msg, groupKey, r) ==
    SetUniformBytes(
        HashWrite(HashWrite(HashWrite(HashNew, PointBytes(r)), PointBytes(groupKey)), msg))

\* z = d + (e * rho) + lambda * s * c (part_000:103-106, round1.go:120-123)
ComputeZUnbound(d, e, rho, lambda, s, c) ==
    ScalarAdd(ScalarMultiplyAdd(e, 1, ScalarMultiply(ScalarMultiply(lambda, s), c)), d)

ComputeZ(d, e, rho, lambda, s, c) ==
    ScalarAdd(ScalarMultiplyAdd(e, rho, ScalarMultiply(ScalarMultiply(lambda, s), c)), d)

\* what ProcessRound computes from the state (part_000:49-109, round1.go:64-126)
RoundResult(order, parties) ==
    LET B    == TranscriptB(TranscriptOrder(AllParties, order), parties)
        loop == RangeParties(order, parties, IdentityPoint, Message, B)
        c    == ComputeChallenge(Message, GroupKey, loop.R)
        self == loop.Parties[PartySelf]
        z    == ComputeZ(nonce_d, nonce_e, self.Pi, self.Lagrange, signSecret, c)
    IN  [Parties |-> [loop.Parties EXCEPT ![PartySelf].Zi = z],
         R |-> loop.R, C |-> c, z |-> z]

\* the peers' (Di, Ei) copied from the stored messages (part_000:24-31,
\* round1.go:40-44)
ReadMailbox(parties, box) ==
    [id \in PartyIDs |->
        IF id = PartySelf THEN parties[id]
        ELSE [parties[id] EXCEPT !.Di = box[id].Di, !.Ei = box[id].Ei]]

MailboxComplete == \A id \in Peers : id \in DOMAIN mailbox

\* a Sign1 message of a peer is stored (the store itself is not in the sources: one
\* Sign1 message per peer is accepted, as section 4.D describes)
StoreSign1(id, nonces) ==
    /\ SignLive
    /\ id \in Peers /\ id \notin sign1Seen
    /\ sign1Seen' = sign1Seen \cup {id}
    /\ mailbox' = [j \in DOMAIN mailbox \cup {id} |-> IF j = id THEN nonces ELSE mailbox[j]]
    /\ UNCHANGED <<variant, Parties, R, C, nonce_d, nonce_e, signSecret, Message,
                   messagesProcessed, roundProcessed, readyForNextRound, current,
                   signRet, signPanicked, computed, shuffled>>
    /\ UNCHANGED nonSignVars

\* ---- the queue variant (src/unnamed/part_000)

\* ProcessMessages (part_000:14-37)
QueuedProcessMessages ==
    /\ SignLive /\ variant = "queue"
    /\ IF messagesProcessed
       THEN /\ SignReturns("ProcessMessages", "nil", <<>>)
            /\ UNCHANGED <<Parties, mailbox, messagesProcessed, signPanicked>>
       ELSE IF ~MailboxComplete
       THEN \* msgs[id] is nil: msgs[id].Sign1 panics
            /\ signPanicked' = TRUE
            /\ SignReturns("panic", "nil", <<>>)
            /\ UNCHANGED <<Parties, mailbox, messagesProcessed>>
       ELSE /\ Parties' = ReadMailbox(Parties, mailbox)
            /\ mailbox' = <<>>
            /\ messagesProcessed' = TRUE
            /\ SignReturns("ProcessMessages", "nil", <<>>)
            /\ UNCHANGED signPanicked
    /\ UNCHANGED <<variant, R, C, nonce_d, nonce_e, signSecret, Message, roundProcessed,
                   readyForNextRound, current, computed, shuffled, sign1Seen>>
    /\ UNCHANGED nonSignVars

\* ProcessRound (part_000:39-114)
QueuedProcessRound(order) ==
    /\ SignLive /\ variant = "queue"
    /\ ~roundProcessed => computed < MaxComputed
    /\ IF roundProcessed
       THEN /\ SignReturns("ProcessRound", ErrRoundProcessed, <<>>)
            /\ UNCHANGED <<Parties, R, C, roundProcessed, computed, shuffled>>
       ELSE \E res \in {RoundResult(order, Parties)} :
                /\ Parties' = res.Parties
                /\ R' = res.R
                /\ C' = res.C
                /\ roundProcessed' = TRUE
                /\ computed' = computed + 1
                /\ shuffled' = (order # AllParties)
                /\ SignReturns("ProcessRound", "nil", <<>>)
    /\ UNCHANGED <<variant, nonce_d, nonce_e, signSecret, Message, mailbox,
                   messagesProcessed, readyForNextRound, current, signPanicked,
                   sign1Seen>>
    /\ UNCHANGED nonSignVars

\* the condition of the hand-over to round 2 (part_000:120, 133)
HandOverReadyMessagesOnly(rp, mp) == mp

HandOverReady(rp, mp) == rp /\ mp

\* GenerateMessages (part_000:116-127)
QueuedGenerateMessages ==
    /\ SignLive /\ variant = "queue"
    /\ IF ~HandOverReady(roundProcessed, messagesProcessed)
       THEN SignReturns("GenerateMessages", ErrRoundNotProcessed, <<>>)
       ELSE SignReturns("GenerateMessages", "nil",
                        <<NewSign2(PartySelf, Parties[PartySelf].Zi)>>)
    /\ UNCHANGED <<variant, Parties, R, C, nonce_d, nonce_e, signSecret, Message, mailbox,
                   messagesProcessed, roundProcessed, readyForNextRound, current,
                   signPanicked, computed, shuffled, sign1Seen>>
    /\ UNCHANGED nonSignVars

\* NextRound (part_000:129-139)
QueuedNextRound ==
    /\ SignLive /\ variant = "queue"
    /\ IF HandOverReady(roundProcessed, messagesProcessed)
       THEN /\ roundProcessed' = FALSE
            /\ messagesProcessed' = FALSE
            /\ current' = "round2"
       ELSE UNCHANGED <<roundProcessed, messagesProcessed, current>>
    /\ SignReturns("NextRound", "nil", <<>>)
    /\ UNCHANGED <<variant, Parties, R, C, nonce_d, nonce_e, signSecret, Message, mailbox,
                   readyForNextRound, signPanicked, computed, shuffled, sign1Seen>>
    /\ UNCHANGED nonSignVars

\* ---- the combined variant (src/pkg/frost/sign/round1.go)

\* CanProcess (round1.go:18-37)
CanProcessResult ==
    IF readyForNextRound THEN FALSE
    ELSE IF Cardinality(DOMAIN mailbox) = Len(AllParties) - 1
         THEN \A id \in Peers : id \in DOMAIN mailbox
         ELSE TRUE

CombinedCanProcess ==
    /\ SignLive /\ variant = "combined"
    /\ SignReturns("CanProcess", IF CanProcessResult THEN "true" ELSE "false", <<>>)
    /\ UNCHANGED <<variant, Parties, R, C, nonce_d, nonce_e, signSecret, Message, mailbox,
                   messagesProcessed, roundProcessed, readyForNextRound, current,
                   signPanicked, computed, shuffled, sign1Seen>>
    /\ UNCHANGED nonSignVars

\* ProcessMessages (round1.go:39-50), called on its own
CombinedProcessMessages ==
    /\ SignLive /\ variant = "combined"
    /\ IF ~MailboxComplete
       THEN \* round.msgs1[id] is nil: round.msgs1[id].Di panics
            /\ signPanicked' = TRUE
            /\ SignReturns("panic", "nil", <<>>)
            /\ UNCHANGED <<Parties, mailbox>>
       ELSE /\ Parties' = ReadMailbox(Parties, mailbox)
            /\ mailbox' = <<>>
            /\ SignReturns("ProcessMessages", "nil", <<>>)
            /\ UNCHANGED signPanicked
    /\ UNCHANGED <<variant, R, C, nonce_d, nonce_e, signSecret, Message,
                   messagesProcessed, roundProcessed, readyForNextRound, current,
                   computed, shuffled, sign1Seen>>
    /\ UNCHANGED nonSignVars

\* ProcessRound (round1.go:52-133)
CombinedProcessRound(order) ==
    /\ SignLive /\ variant = "combined"
    /\ ~readyForNextRound /\ MailboxComplete => computed < MaxComputed
    /\ IF readyForNextRound
       THEN /\ SignReturns("ProcessRound", ErrRoundProcessed, <<>>)
            /\ UNCHANGED <<Parties, R, C, mailbox, readyForNextRound, signPanicked,
                           computed, shuffled>>
       ELSE IF ~MailboxComplete
       THEN \* round.ProcessMessages() panics on the missing message
            /\ signPanicked' = TRUE
            /\ SignReturns("panic", "nil", <<>>)
            /\ UNCHANGED <<Parties, R, C, mailbox, readyForNextRound, computed, shuffled>>
       ELSE \E res \in {RoundResult(order, ReadMailbox(Parties, mailbox))} :
                /\ Parties' = res.Parties
                /\ R' = res.R
                /\ C' = res.C
                /\ mailbox' = <<>>
                /\ readyForNextRound' = TRUE
                /\ computed' = computed + 1
                /\ shuffled' = (order # AllParties)
                /\ SignReturns("ProcessRound", "nil", <<NewSign2(PartySelf, res.z)>>)
                /\ UNCHANGED signPanicked
    /\ UNCHANGED <<variant, nonce_d, nonce_e, signSecret, Message, messagesProcessed,
                   roundProcessed, current, sign1Seen>>
    /\ UNCHANGED nonSignVars

\* NextRound (round1.go:134-143)
CombinedNextRound ==
    /\ SignLive /\ variant = "combined"
    /\ IF readyForNextRound
       THEN /\ readyForNextRound' = FALSE
            /\ current' = "round2"
       ELSE UNCHANGED <<readyForNextRound, current>>
    /\ SignReturns("NextRound", "nil", <<>>)
    /\ UNCHANGED <<variant, Parties, R, C, nonce_d, nonce_e, signSecret, Message, mailbox,
                   messagesProcessed, roundProcessed, signPanicked, computed, shuffled,
                   sign1Seen>>
    /\ UNCHANGED nonSignVars

\* ---- the signing session

\* a party of the session before round 1: the peers' Di, Ei are not yet known
NewParty(di, ei, lambda) ==
    [Di |-> di, Ei |-> ei, Pi |-> ZeroScalar, Ri |-> IdentityPoint, Zi |-> ZeroScalar,
     Lagrange |-> lambda]

\* the session as round 0 leaves it: fresh nonces d, e with D = [d]B, E = [e]B stored
\* for the local party, the secret share, the Lagrange coefficient, the message
SignStart(v, d, e, s, lambda, msg) ==
    /\ variant = v
    /\ Parties = [id \in PartyIDs |->
                    IF id = PartySelf
                    THEN NewParty(ScalarBaseMult(d), ScalarBaseMult(e), lambda)
                    ELSE NewParty(IdentityPoint, IdentityPoint, 1)]
    /\ R = IdentityPoint
    /\ C = ZeroScalar
    /\ nonce_d = d
    /\ nonce_e = e
    /\ signSecret = s
    /\ Message = msg
    /\ mailbox = <<>>
    /\ messagesProcessed = FALSE
    /\ roundProcessed = FALSE
    /\ readyForNextRound = FALSE
    /\ current = "round1"
    /\ signRet = [op |-> "none", err |-> "nil", out |-> <<>>]
    /\ signPanicked = FALSE
    /\ computed = 0
    /\ shuffled = FALSE
    /\ sign1Seen = {}

\* the signing variables while another part of the model runs
SignIdle == SignStart("queue", 1, 1, 1, 1, <<1>>)

\* the secret shares and Lagrange coefficients the sessions start with
SecretShares == {0, 3, 4}
Lagranges == {1, 2}

SignInit ==
    \E v \in {"queue", "combined"}, d \in Scalars, e \in Scalars, s \in SecretShares,
       lambda \in Lagranges, msg \in SignMessages :
        SignStart(v, d, e, s, lambda, msg)

SignNext ==
    \/ \E id \in Peers, nonces \in PeerNonces : StoreSign1(id, nonces)
    \/ QueuedProcessMessages
    \/ \E order \in RangeOrders : QueuedProcessRound(order)
    \/ QueuedGenerateMessages
    \/ QueuedNextRound
    \/ CombinedCanProcess
    \/ CombinedProcessMessages
    \/ \E order \in RangeOrders : CombinedProcessRound(order)
    \/ CombinedNextRound

-----------------------------------------------------------------------------
\* Key generation round 2 (src/pkg/frost/keygen/round2.go)

\* the round under test: party 1 of the set {1, 2, 3}, threshold 1
SelfID == 1
KeygenSet == {1, 2, 3}
Threshold == 1

\* the exponent polynomials [A_0, A_1] a party may have committed to in round 1
CommitmentChoices == {<<4, 3>>, <<9, 1>>, <<5, 5>>}

\* ID.Bytes-like little-endian encoding used by ID.setScalar (part_001:28-38):
\* binary.LittleEndian.PutUint16 into 32 zero bytes
PutUint16LE(id) == <<id % 256, (id \div 256) % 256>>

\* Scalar.SetCanonicalBytes: the number the little-endian bytes spell
SetCanonicalBytes(bytes) == bytes[1] + 256 * bytes[2]

\* ID.Scalar (part_001:41-45)
IDScalar(id) == SetCanonicalBytes(PutUint16LE(id))

\* polynomial.Exponent.Evaluate(x): Horner's rule on the exponent polynomial,
\* from the coefficient k down to the constant
RECURSIVE EvaluateFrom(_, _, _)
EvaluateFrom(poly, x, k) ==
    IF k = Len(poly) THEN poly[k]
    ELSE PointAdd(ScalarMult(x, EvaluateFrom(poly, x, k + 1)), poly[k])

Evaluate(poly, x) == EvaluateFrom(poly, x, 1)

\* polynomial.Exponent.Constant()
Constant(poly) == poly[1]

\* the coefficient-wise sum of the parties' exponent polynomials
RECURSIVE SumExponents(_, _)
SumExponents(polys, ids) ==
    IF ids = {} THEN [k \in 1..(Threshold + 1) |-> IdentityPoint]
    ELSE LET id   == CHOOSE x \in ids : TRUE
             rest == SumExponents(polys, ids \ {id})
         IN  [k \in 1..(Threshold + 1) |-> PointAdd(rest[k], polys[id][k])]

\* the point the share is checked against (round2.go:17-18): the sender's commitment
\* evaluated at the local party's ID
ShareExpAtSender(commitments, from, self) == Evaluate(commitments[from], IDScalar(from))

ShareExp(commitments, from, self) == Evaluate(commitments[from], IDScalar(self))

\* the VSS check (round2.go:14-20)
VSSValid(share, commitments, from, self) ==
    ScalarBaseMult(share) = ShareExp(commitments, from, self)

\* round.Secret.Add(&round.Secret, &msg.KeyGen2.Share) (round2.go:23)
AddShareOverwrites(secret, share) == share

AddShare(secret, share) == ScalarAdd(secret, share)

KgReturns(op, from, culprit) == kgRet' = [op |-> op, from |-> from, culprit |-> culprit]

\* a KeyGen2 message arrives: one per sender, carrying any share
DeliverKeyGen2(from, share) ==
    /\ from \notin DOMAIN inbox
    /\ inbox' = [j \in DOMAIN inbox \cup {from} |-> IF j = from THEN share ELSE inbox[j]]
    /\ UNCHANGED <<Secret, Commitments, CommitmentsSum, Output, kgRet, accepted>>
    /\ UNCHANGED nonKgVars

\* ProcessMessage (round2.go:13-29) on the message of sender `from`
KgProcessMessage(from) ==
    /\ from \in DOMAIN inbox
    /\ VSSValid(inbox[from], Commitments, from, SelfID) => accepted[from] < MaxAccepted
    /\ IF ~VSSValid(inbox[from], Commitments, from, SelfID)
       THEN /\ KgReturns("ProcessMessage", from, from)
            /\ UNCHANGED <<Secret, inbox, accepted>>
       ELSE /\ Secret' = AddShare(Secret, inbox[from])
            /\ inbox' = [inbox EXCEPT ![from] = ZeroScalar]
            /\ accepted' = [accepted EXCEPT ![from] = @ + 1]
            /\ KgReturns("ProcessMessage", from, 0)
    /\ UNCHANGED <<Commitments, CommitmentsSum, Output>>
    /\ UNCHANGED nonKgVars

\* eddsa.NewPublic(shares, threshold, groupKey) and eddsa.NewSecretShare(id, secret)
NewPublic(shares, threshold, groupKey) ==
    [Shares |-> shares, Threshold |-> threshold, GroupKey |-> groupKey]
NewSecretShare(id, secret) == [ID |-> id, Secret |-> secret]

\* GenerateMessages (round2.go:31-39)
KgGenerateMessages ==
    /\ Output' = <<[Public    |-> NewPublic([id \in KeygenSet |->
                                                Evaluate(CommitmentsSum, IDScalar(id))],
                                            Threshold, Constant(CommitmentsSum)),
                    SecretKey |-> NewSecretShare(SelfID, Secret)]>>
    /\ KgReturns("GenerateMessages", 0, 0)
    /\ UNCHANGED <<Secret, Commitments, CommitmentsSum, inbox, accepted>>
    /\ UNCHANGED nonKgVars

\* the round as round 1 leaves it: every party's commitments stored and summed, no
\* share accumulated yet
KgStart(commitments) ==
    /\ Secret = ZeroScalar
    /\ Commitments = commitments
    /\ CommitmentsSum = SumExponents(commitments, KeygenSet)
    /\ inbox = <<>>
    /\ Output = <<>>
    /\ kgRet = [op |-> "none", from |-> 0, culprit |-> 0]
    /\ accepted = [id \in KeygenSet |-> 0]

\* the key generation variables while another part of the model runs
KgIdle == KgStart([id \in KeygenSet |-> <<4, 3>>])

KgInit == \E commitments \in [KeygenSet -> CommitmentChoices] : KgStart(commitments)

KgNext ==
    \/ \E from \in KeygenSet, share \in Scalars : DeliverKeyGen2(from, share)
    \/ \E from \in KeygenSet : KgProcessMessage(from)
    \/ KgGenerateMessages

-----------------------------------------------------------------------------
\* NewBaseRound (src/pkg/rounds/base.go:46-89)

\* a uint32 party ID; 0 is the reserved one
IDValues == 0..MaxID
\* the allPartyIDs slices: any order, repeats and zeros included
IDLists == UNION {[1..n -> IDValues] : n \in 0..MaxListLen}

\* messages.NewMessageQueue(selfPartyID, otherPartyIDs, acceptedTypes): section 4.D
\* names no way for the construction to fail
NewMessageQueueErr(self, others, types) == ""

\* what NewBaseRound returns: the error text ("" is nil) and the fields of the round
\* (those of the zero BaseRound when the error is not nil)
BaseRoundValue(err, self, all, others, st) ==
    [err |-> err, selfPartyID |-> self, AllPartyIDs |-> all, OtherPartyIDs |-> others,
     state |-> st, roundNumber |-> 0, isProcessingStep |-> FALSE, done |-> "open",
     finalError |-> ErrNil]

NewBaseRoundFails(err) == BaseRoundValue(err, 0, <<>>, {}, 0)

\* the loop over allPartyIDs (base.go:56-69) from position k on
RECURSIVE NewBaseRoundLoop(_, _, _, _, _, _)
NewBaseRoundLoop(self, ids, k, foundSelfIDInAll, finalAllPartyIDs, otherPartyIDs) ==
    IF k > Len(ids)
    THEN [err |-> "", found |-> foundSelfIDInAll, all |-> finalAllPartyIDs,
          others |-> otherPartyIDs]
    ELSE IF ids[k] = 0
    THEN [err |-> "IDs in allPartyIDs cannot be 0", found |-> foundSelfIDInAll,
          all |-> finalAllPartyIDs, others |-> otherPartyIDs]
    ELSE IF ids[k] = self /\ ~foundSelfIDInAll
    THEN NewBaseRoundLoop(self, ids, k + 1, TRUE, Append(finalAllPartyIDs, ids[k]),
                          otherPartyIDs)
    ELSE IF ids[k] \notin otherPartyIDs
    THEN NewBaseRoundLoop(self, ids, k + 1, foundSelfIDInAll,
                          Append(finalAllPartyIDs, ids[k]), otherPartyIDs \cup {ids[k]})
    ELSE NewBaseRoundLoop(self, ids, k + 1, foundSelfIDInAll, finalAllPartyIDs,
                          otherPartyIDs)

NewBaseRoundResult(self, ids, types) ==
    IF self = 0 THEN NewBaseRoundFails("selfPartyID cannot be 0")
    ELSE LET l == NewBaseRoundLoop(self, ids, 1, FALSE, <<>>, {})
         IN  IF l.err # "" THEN NewBaseRoundFails(l.err)
             ELSE IF ~l.found
             THEN NewBaseRoundFails("selfPartyID must be included in allPartyIDs")
             ELSE IF NewMessageQueueErr(self, l.others, types) # ""
             THEN NewBaseRoundFails(NewMessageQueueErr(self, l.others, types))
             ELSE BaseRoundValue("", self, l.all, l.others, ProcessRound)

\* one call of NewBaseRound
NewBaseRound(self, ids) ==
    /\ built' = <<[self |-> self, ids |-> ids,
                   round |-> NewBaseRoundResult(self, ids, AcceptedTypes)]>>
    /\ UNCHANGED nonCtorVars

\* no call made yet
CtorIdle == built = <<>>

CtorNext == \E self \in IDValues, ids \in IDLists : NewBaseRound(self, ids)

-----------------------------------------------------------------------------
\* The BaseRound specification: NewBaseRound's result (base.go:83-88), then any
\* interleaving of the callers' calls

NoReturn == [op |-> "none", ok |-> TRUE, err |-> ErrNil]

BaseInit ==
    /\ state = ProcessRound
    /\ isProcessingStep = FALSE
    /\ finalError = ErrNil
    /\ roundNumber = 0
    /\ done = "open"
    /\ messages = [round |-> 1, stored |-> {}]
    /\ pc = [t \in Callers |-> "idle"]
    /\ sv = [t \in Callers |-> 0]
    /\ ret = NoReturn
    /\ panicked = FALSE
    /\ abortLog = <<>>
    /\ everTerminal = FALSE
    /\ granted = {}

BaseNext ==
    \E t \in Callers :
        \/ PrepareNextRound(t)
        \/ \E c \in Culprits, x \in Errs : AbortCall(t, c, x)
        \/ FinishCheck(t)
        \/ FinishSet(t)
        \/ FinishClose(t)
        \/ WaitForFinishCall(t)
        \/ WaitForFinishRecv(t)
        \/ WaitForFinishReturn(t)
        \/ CanProcessMessages(t)
        \/ CanProcessRound(t)
        \/ CanGenerateMessages(t)
        \/ NextStepSwitch(t)
        \/ NextStepClear(t)
        \/ NextStepShift(t)
        \/ NextStepQueue(t)
        \/ \E m \in Msgs : StoreMessage(t, m)

Init == BaseInit /\ SignIdle /\ KgIdle /\ CtorIdle

Next == BaseNext

Spec == Init /\ [][Next]_vars

\* The calls made one after the other: a single goroutine calls, the other never does
SeqInit ==
    /\ state = ProcessRound
    /\ isProcessingStep = FALSE
    /\ finalError = ErrNil
    /\ roundNumber = 0
    /\ done = "open"
    /\ messages = [round |-> 1, stored |-> {}]
    /\ pc = [t \in Callers |-> IF t = 1 THEN "idle" ELSE "absent"]
    /\ sv = [t \in Callers |-> 0]
    /\ ret = NoReturn
    /\ panicked = FALSE
    /\ abortLog = <<>>
    /\ everTerminal = FALSE
    /\ granted = {}
    /\ SignIdle
    /\ KgIdle
    /\ CtorIdle

SeqSpec == SeqInit /\ [][Next]_vars

\* Signing round 1 on its own
SignSpecInit == BaseInit /\ SignInit /\ KgIdle /\ CtorIdle

SignSpec == SignSpecInit /\ [][SignNext]_vars

\* Key generation round 2 on its own
KeyGenSpecInit == BaseInit /\ SignIdle /\ KgInit /\ CtorIdle

KeyGenSpec == KeyGenSpecInit /\ [][KgNext]_vars

\* NewBaseRound on its own, called on any arguments
CtorSpecInit == BaseInit /\ SignIdle /\ KgIdle /\ CtorIdle

CtorSpec == CtorSpecInit /\ [][CtorNext]_vars

\* The steps a goroutine takes once it is inside a call: the Go scheduler runs every
\* runnable goroutine again, so a call that can continue does
Progress(t) ==
    \/ FinishSet(t)
    \/ FinishClose(t)
    \/ WaitForFinishRecv(t)
    \/ WaitForFinishReturn(t)
    \/ NextStepClear(t)
    \/ NextStepShift(t)
    \/ NextStepQueue(t)

FairSpec == Init /\ [][Next]_vars /\ \A t \in Callers : WF_vars(Progress(t))

-----------------------------------------------------------------------------
\* Claims about rounds.BaseRound

Aborted == abortLog # <<>>

GateOps == {"CanProcessMessages", "CanProcessRound", "CanGenerateMessages",
            "PrepareNextRound"}

\* C1 (calls made one after the other): once Abort has been called the state is Abort
\* in every later state, whatever NextStep, Finish or PrepareNextRound calls follow,
\* and every CanProcessMessages, CanProcessRound, CanGenerateMessages and
\* PrepareNextRound call that completes afterwards returns false.
C1_AbortSticky ==
    Aborted => /\ state = Abort
               /\ ret.op \in GateOps => ~ret.ok

\* an Abort, then a CanProcessRound call that was refused, with no step reserved
C1_Witness ==
    /\ Aborted
    /\ ret.op = "CanProcessRound"
    /\ ~ret.ok
    /\ ~isProcessingStep

\* C2: the recorded error is exactly the chain of the Abort calls' (culprit, err)
\* in call order: the first Abort's entry stays first, each later Abort appends its
\* entry, no other operation touches it; and a WaitForFinish that returns an error
\* returns one whose first entry is the first Abort's.
C2_FirstAbortKept ==
    /\ finalError = abortLog
    /\ (ret.op = "WaitForFinish" /\ ret.err # ErrNil) => ret.err[1] = abortLog[1]

\* two Aborts naming different culprits, then a WaitForFinish that returned the chain
C2_Witness ==
    /\ Len(abortLog) = 2
    /\ abortLog[1].culprit # abortLog[2].culprit
    /\ ret.op = "WaitForFinish"
    /\ ret.err = abortLog

\* C3: once a Finish or Abort call has completed, every caller blocked in
\* WaitForFinish eventually returns from it.
C3_WaitReturns ==
    \A t \in Callers :
        (pc[t] = "Wait_recv" /\ ret.op \in {"Finish", "Abort"}) ~> (pc[t] = "idle")

\* a caller is between the first and the last step of Finish or NextStep
InEntry(t) == pc[t] \notin {"idle", "absent", "Wait_recv", "Wait_ret"}

\* C4: at most one entry point executes at a time: while a caller is inside an entry
\* point no other caller's call takes a step (WaitForFinish aside), and so a state
\* set to Abort is never overwritten.
C4_ExclusiveEntry ==
    [][/\ \A t \in Callers :
            InEntry(t) =>
                \/ pc'[t] # pc[t]
                \/ \E u \in Callers : pc[u] \in {"Wait_recv", "Wait_ret"} /\ pc'[u] # pc[u]
                \/ \E u \in Callers : pc'[u] = "Wait_recv" /\ pc[u] = "idle"
       /\ state = Abort => state' = Abort]_vars

\* C5: after Abort, a StoreMessage call returns the recorded abort error and leaves
\* the queue as it was.
C5_StoreAfterAbort ==
    [][\A t \in Callers, m \in Msgs :
          (Aborted /\ StoreMessage(t, m)) =>
              /\ messages' = messages
              /\ ret'.err = finalError]_vars

-----------------------------------------------------------------------------
\* Claims about signing round 1

\* C7: once ProcessRound has computed the response, the nonces d and e are zero, in
\* that state and ever after.
C7_NoncesErased ==
    computed > 0 => (nonce_d = ZeroScalar /\ nonce_e = ZeroScalar)

\* C8: whatever order the range over the Parties map takes, ProcessRound leaves the
\* rho_i, the R_i, the aggregate R and the challenge c that ranging in the order of
\* the AllParties slice gives: they depend on the list, the message and the (D_i, E_i)
\* alone.
C8_TranscriptDeterministic ==
    [][computed' # computed =>
          \E ref \in {RoundResult(AllParties, Parties')} :
              /\ \A id \in PartyIDs : /\ Parties'[id].Pi = ref.Parties[id].Pi
                                     /\ Parties'[id].Ri = ref.Parties[id].Ri
              /\ R' = ref.R
              /\ C' = ref.C]_vars

\* a response computed while ranging over the map out of slice order, the two peers
\* having sent different nonce commitments
C8_Witness ==
    /\ computed > 0
    /\ shuffled
    /\ Parties[1].Di # Parties[3].Di
    /\ Parties[1].Pi # Parties[3].Pi

\* C9: the response z_self that ProcessRound computes satisfies
\* [z_self]B = R_self + [c * lambda_self]Y_self with R_self = D + [rho_self]E and
\* Y_self = [s_self]B, and the Sign2 message handed out carries exactly z_self.
C9_ShareVerifies ==
    computed > 0 =>
        LET self == Parties[PartySelf]
        IN  /\ self.Ri = PointAdd(self.Di, ScalarMult(self.Pi, self.Ei))
            /\ ScalarBaseMult(self.Zi) =
                   PointAdd(self.Ri, ScalarMult(ScalarMultiply(C, self.Lagrange),
                                                ScalarBaseMult(signSecret)))
            /\ signRet.out # <<>> => signRet.out = <<NewSign2(PartySelf, self.Zi)>>

\* a Sign2 message handed out, every term of the response being non-zero
C9_Witness ==
    /\ computed > 0
    /\ signRet.out # <<>>
    /\ nonce_d # 0 /\ nonce_e # 0 /\ signSecret # 0
    /\ C # 0 /\ Parties[PartySelf].Pi # 0

-----------------------------------------------------------------------------
\* Claims about key generation round 2

\* C6: ProcessMessage accepts the share s of sender j exactly when [s]B equals j's
\* commitment polynomial evaluated at the local ID scalar; a rejection returns an
\* error naming j and leaves Secret and the share in the message as they were; an
\* acceptance adds s to Secret once and overwrites the share in the message with zero.
C6_VSSCheck ==
    [][\A j \in KeygenSet :
          KgProcessMessage(j) =>
              IF ScalarBaseMult(inbox[j]) = Evaluate(Commitments[j], IDScalar(SelfID))
              THEN /\ kgRet'.culprit = 0
                   /\ Secret' = ScalarAdd(Secret, inbox[j])
                   /\ inbox'[j] = ZeroScalar
              ELSE /\ kgRet'.culprit = j
                   /\ Secret' = Secret
                   /\ inbox' = inbox]_vars

\* a share of party 2 rejected after a non-zero share of party 3 was accepted
C6_Witness ==
    /\ kgRet = [op |-> "ProcessMessage", from |-> 2, culprit |-> 2]
    /\ accepted[3] = 1
    /\ Secret # ZeroScalar
    /\ 3 \in DOMAIN inbox /\ inbox[3] = ZeroScalar
    /\ 2 \in DOMAIN inbox /\ inbox[2] # ZeroScalar

AcceptedOnceEach == \A j \in KeygenSet : accepted[j] = 1

\* C10: when exactly one validated share of every party of the set has been
\* accepted, GenerateMessages puts out the local public share [Secret]B, for every
\* party the public share CommitmentsSum evaluated at its ID scalar, the group key
\* CommitmentsSum[0], and the secret share Secret.
C10_ShareConsistency ==
    [][(KgGenerateMessages /\ AcceptedOnceEach) =>
          LET out == Output'[1]
          IN  /\ out.SecretKey = [ID |-> SelfID, Secret |-> Secret]
              /\ out.Public.Shares[SelfID] = ScalarBaseMult(Secret)
              /\ DOMAIN out.Public.Shares = KeygenSet
              /\ \A id \in KeygenSet :
                     out.Public.Shares[id] = Evaluate(CommitmentsSum, IDScalar(id))
              /\ out.Public.GroupKey = CommitmentsSum[1]]_vars

\* the output produced after one share of each party was accepted, the parties
\* having committed to different polynomials
C10_Witness ==
    /\ Output # <<>>
    /\ kgRet.op = "GenerateMessages"
    /\ AcceptedOnceEach
    /\ Output[1].SecretKey.Secret = Secret
    /\ Secret # ZeroScalar
    /\ Commitments[1] # Commitments[2]

-----------------------------------------------------------------------------
\* Claims about NewBaseRound

Accepted == built # <<>> /\ built[1].round.err = ""

IsAscending(ids) == \A k \in 1..(Len(ids) - 1) : ids[k] <= ids[k + 1]

\* C11: for every input NewBaseRound accepts, AllPartyIDs is in ascending ID order
\* (so that the transcript B, built by ranging over it, is the same for every
\* participant whatever the order of the input).
C11_AllPartyIDsAscending ==
    Accepted => IsAscending(built[1].round.AllPartyIDs)

Occurrences(ids, id) == Cardinality({k \in 1..Len(ids) : ids[k] = id})

\* C19: NewBaseRound fails when selfPartyID is 0, when a listed ID is 0 or when
\* selfPartyID is not listed; for every list it accepts, AllPartyIDs has no
\* duplicate and holds selfPartyID exactly once, and OtherPartyIDs is the set of
\* AllPartyIDs without selfPartyID.
C19_PartySetWellFormed ==
    built # <<>> =>
        LET self == built[1].self
            ids  == built[1].ids
            rnd  == built[1].round
            all  == rnd.AllPartyIDs
        IN  /\ (self = 0 \/ (\E k \in 1..Len(ids) : ids[k] = 0)
                         \/ ~(\E k \in 1..Len(ids) : ids[k] = self)) => rnd.err # ""
            /\ rnd.err = "" =>
                   /\ \A id \in IDValues : Occurrences(all, id) <= 1
                   /\ Occurrences(all, self) = 1
                   /\ rnd.OtherPartyIDs = {all[k] : k \in 1..Len(all)} \ {self}

-----------------------------------------------------------------------------
\* Claims about the life cycle of signing round 1

\* C12: CanProcess returns true only when the round has not been processed and a
\* Sign1 message is stored for every signer other than self; with a message
\* missing it returns false.
C12_CanProcessComplete ==
    [][(CombinedCanProcess /\ signRet'.err = "true") =>
          (~readyForNextRound /\ MailboxComplete)]_vars

\* a ProcessRound call of either variant
ProcessRoundCall ==
    \/ \E order \in RangeOrders : QueuedProcessRound(order)
    \/ \E order \in RangeOrders : CombinedProcessRound(order)

\* the fields of the session a call may change, its return value apart
SessionState ==
    <<Parties, R, C, nonce_d, nonce_e, signSecret, Message, mailbox, messagesProcessed,
      roundProcessed, readyForNextRound, current>>

\* C16: ProcessRound computes rho_i, R, c and z_self only after ProcessMessages has
\* recorded every peer's (D_j, E_j); called before that, it returns a misuse error
\* and changes nothing.
C16_ProcessRoundInOrder ==
    [][(variant = "queue" /\ ProcessRoundCall /\ ~messagesProcessed) =>
          /\ computed' = computed
          /\ signRet'.err # "nil"
          /\ UNCHANGED SessionState]_vars

\* C17: ProcessRound computes at most once in a session; every ProcessRound call
\* after the computation, those made after NextRound has handed over to round 2
\* included, returns ErrRoundProcessed and changes no state.
C17_ProcessedOnce ==
    [][(ProcessRoundCall /\ computed > 0) =>
          /\ computed' = computed
          /\ signRet'.err = ErrRoundProcessed
          /\ UNCHANGED SessionState]_vars

\* C18: unless both ProcessMessages and ProcessRound have completed,
\* GenerateMessages returns ErrRoundNotProcessed, hands out no Sign2 message and
\* changes nothing, and NextRound keeps the session in round 1 and changes nothing;
\* when both have completed NextRound hands over to round 2. Round 2 is never
\* entered and no Sign2 message is handed out before z_self has been computed.
C18_HandOverGated ==
    /\ []((current = "round2" \/ signRet.out # <<>>) => computed > 0)
    /\ [][/\ QueuedGenerateMessages =>
               /\ UNCHANGED SessionState
               /\ IF roundProcessed /\ messagesProcessed
                  THEN signRet'.err = "nil"
                  ELSE signRet'.err = ErrRoundNotProcessed /\ signRet'.out = <<>>
          /\ QueuedNextRound =>
               IF roundProcessed /\ messagesProcessed
               THEN current' = "round2"
               ELSE UNCHANGED SessionState
          /\ CombinedNextRound =>
               IF readyForNextRound
               THEN current' = "round2"
               ELSE UNCHANGED SessionState]_vars

\* GenerateMessages refused after ProcessRound alone had run
C18_Witness ==
    /\ signRet.op = "GenerateMessages"
    /\ signRet.err = ErrRoundNotProcessed
    /\ roundProcessed /\ ~messagesProcessed
    /\ current = "round1"
    /\ computed > 0

-----------------------------------------------------------------------------
\* Claims about the round life cycle of the BaseRound

\* C13: a NextStep call made in ProcessMessages, ProcessRound or GenerateMessages
\* moves the state forward by exactly one position, to ProcessRound,
\* GenerateMessages or NextRound; NextStep never moves the state anywhere else,
\* and in NextRound, Finished or Abort it changes nothing.
C13_NextStepAdvancesOne ==
    [][\A t \in Callers :
          /\ NextStepShift(t) =>
                /\ NextStepActs(state)
                /\ state' = ShiftState(state)
          /\ NextStepClear(t) => NextStepActs(state)
          /\ (NextStepSwitch(t) /\ ~NextStepActs(state)) =>
                UNCHANGED <<state, isProcessingStep, messages>>]_vars

\* a CanX call that grants its step
Grants(t) ==
    /\ CanProcessMessages(t) \/ CanProcessRound(t) \/ CanGenerateMessages(t)
    /\ ret'.ok

\* C14: a CanX call returns true only in its own state, with no step reserved and
\* (for CanProcessMessages) with every message received; the step granted last is
\* not granted a second time in the same round.
C14_StepGrantedOnce ==
    [][\A t \in Callers :
          Grants(t) =>
              /\ ~isProcessingStep
              /\ state \notin granted
              /\ CanProcessMessages(t) =>
                     (state = ProcessMessages /\ QueueReceivedAll(messages))
              /\ CanProcessRound(t) => state = ProcessRound
              /\ CanGenerateMessages(t) => state = GenerateMessages]_vars

\* C15: a new BaseRound is in ProcessRound with roundNumber 0 and no step reserved;
\* PrepareNextRound returns true exactly in NextRound, then sets the state to
\* ProcessMessages and adds 1 to roundNumber; in any other state it returns false
\* and changes nothing; nothing else changes roundNumber.
C15_RoundStarts ==
    /\ (state = ProcessRound /\ roundNumber = 0 /\ ~isProcessingStep)
    /\ [][/\ \A t \in Callers :
                PrepareNextRound(t) =>
                    IF state = NextRound
                    THEN /\ ret'.ok
                         /\ state' = ProcessMessages
                         /\ roundNumber' = roundNumber + 1
                    ELSE /\ ~ret'.ok
                         /\ UNCHANGED <<state, isProcessingStep, finalError,
                                        roundNumber, done, messages>>
          /\ roundNumber' # roundNumber =>
                \E t \in Callers : PrepareNextRound(t) /\ ret'.ok]_vars

\* the second round entered, and a later PrepareNextRound call refused
C15_Witness ==
    /\ roundNumber > 0
    /\ ret.op = "PrepareNextRound" /\ ~ret.ok
    /\ state # NextRound

\* C20: over any Abort and Finish calls the done channel is closed at most once: no
\* call closes the closed channel (which panics).
C20_DoneClosedOnce == ~panicked

====
